---- MODULE Spec2Model ----
(***************************************************************************)
(* Model of gmm_training/train_gmm.py: the offline pipeline that collects  *)
(* image paths, extracts one embedding per image, fits a diagonal GMM and  *)
(* exports its parameters as a JSON document.                              *)
(*                                                                         *)
(* Text is modelled as sequences of one-character strings.  A path is the  *)
(* sequence of its '/'-separated components (what str.split('/') gives),   *)
(* each component a sequence of characters.                                *)
(***************************************************************************)
EXTENDS Integers, Sequences, FiniteSets, TLC

\* ------------------------------------------------------------------ bounds

\* Largest number of files in the dataset directory tree.
MaxFiles == 2

\* Largest value of --n_components.
MaxK == 3

\* Width D of one embedding (1280 for MobileNetV2; a small width here).
FeatDim == 2

\* Number of distinct parameter fillings the fit may return per shape.
FitSeeds == 2

\* Largest number of bytes a failing flush still gets into the file.
MaxRoom == 10

\* ------------------------------------------------------- sequence helpers

Range(s) == {s[i] : i \in 1..Len(s)}

RECURSIVE Flatten(_)
\* The concatenation of a sequence of sequences ("".join / list.extend).
Flatten(ss) ==
    IF ss = <<>> THEN <<>> ELSE Head(ss) \o Flatten(Tail(ss))

EndsWith(s, p) ==
    Len(s) >= Len(p) /\ SubSeq(s, Len(s) - Len(p) + 1, Len(s)) = p

\* Sequences over S of length at most n without repeated elements.
DistinctSeqs(S, n) ==
    UNION {{s \in [1..m -> S] : \A i, j \in 1..m : i # j => s[i] # s[j]}
           : m \in 0..n}

\* --------------------------------------------------------- names and paths

DotJpg == <<".", "j", "p", "g">>
DotJpeg == <<".", "j", "p", "e", "g">>
DotPng == <<".", "p", "n", "g">>

NameData == <<"d", "a", "t", "a">>
NameSub == <<"s", "u", "b">>
NameDot == <<".">>
NameDotDot == <<".", ".">>

\* The files the dataset tree may hold, relative to the dataset directory:
\* a.jpg, sub/a.jpg, b.png, sub/c.jpeg, n.txt and the hidden .h.jpg.
FileUniverse ==
    << <<(<<"a">> \o DotJpg)>>,
       <<NameSub, (<<"a">> \o DotJpg)>>,
       <<(<<"b">> \o DotPng)>>,
       <<NameSub, (<<"c">> \o DotJpeg)>>,
       <<(<<"n", ".", "t", "x", "t">>)>>,
       <<(<<".", "h">> \o DotJpg)>> >>

\* The spellings of --dataset_path: "data" and "./data".
DatasetPaths == { <<NameData>>, <<NameDot, NameData>> }

RECURSIVE NormComps(_, _)
\* The loop of posixpath.normpath over the components of a relative path:
\* '' and '.' are dropped, '..' pops the last kept component unless there is
\* none or it is '..' itself.
NormComps(comps, new) ==
    IF comps = <<>> THEN new
    ELSE LET comp == Head(comps) IN
         IF comp = <<>> \/ comp = NameDot THEN NormComps(Tail(comps), new)
         ELSE IF comp # NameDotDot
                 \/ new = <<>>
                 \/ (new # <<>> /\ new[Len(new)] = NameDotDot)
              THEN NormComps(Tail(comps), Append(new, comp))
              ELSE NormComps(Tail(comps), SubSeq(new, 1, Len(new) - 1))

\* os.path.normpath of a relative path; the empty result is ".".
NormPath(path) ==
    LET comps == NormComps(path, <<>>) IN
    IF comps = <<>> THEN <<NameDot>> ELSE comps

\* ------------------------------------------------------------------- glob

\* glob._ishidden: the name starts with a dot.
IsHidden(name) == name # <<>> /\ name[1] = "."

\* fnmatch of a name against "*" followed by a literal suffix.
FnMatch(name, suffix) == EndsWith(name, suffix)

RECURSIVE Dedup(_, _)
\* s without the later repetitions of its elements.
Dedup(s, seen) ==
    IF s = <<>> THEN <<>>
    ELSE IF Head(s) \in seen THEN Dedup(Tail(s), seen)
    ELSE <<Head(s)>> \o Dedup(Tail(s), seen \cup {Head(s)})

\* os.scandir of directory dir (a relative path): the entry names, in the
\* order the listing first shows them.
ListDir(listing, dir) ==
    LET under == SelectSeq(listing,
                   LAMBDA f : Len(f) > Len(dir) /\ SubSeq(f, 1, Len(dir)) = dir)
    IN Dedup([i \in 1..Len(under) |-> under[i][Len(dir) + 1]], {})

\* entry.is_dir() for the entry at relative path p.
IsDirEntry(listing, p) ==
    \E i \in 1..Len(listing) :
        Len(listing[i]) > Len(p) /\ SubSeq(listing[i], 1, Len(p)) = p

RECURSIVE RListDir(_, _)
\* glob._rlistdir with dironly: the non-hidden directories below dir, depth
\* first, each relative to the dataset directory.
RListDir(listing, dir) ==
    LET names == SelectSeq(ListDir(listing, dir),
                   LAMBDA x : IsDirEntry(listing, Append(dir, x)))
        visit == SelectSeq(names, LAMBDA x : ~IsHidden(x))
    IN Flatten([i \in 1..Len(visit) |->
                  <<Append(dir, visit[i])>>
                  \o RListDir(listing, Append(dir, visit[i]))])

\* glob._glob1 for "*<suffix>" in dir: the non-hidden matching names, joined
\* to dir.
Glob1(listing, dir, suffix) ==
    LET names == SelectSeq(ListDir(listing, dir),
                   LAMBDA x : ~IsHidden(x) /\ FnMatch(x, suffix))
    IN [i \in 1..Len(names) |-> Append(dir, names[i])]

\* The six patterns of collect_image_paths, in order.
Patterns ==
    << [rec |-> TRUE, suffix |-> DotJpg],
       [rec |-> TRUE, suffix |-> DotJpeg],
       [rec |-> TRUE, suffix |-> DotPng],
       [rec |-> FALSE, suffix |-> DotJpg],
       [rec |-> FALSE, suffix |-> DotJpeg],
       [rec |-> FALSE, suffix |-> DotPng] >>

\* glob.glob(os.path.join(dataset_path, p), recursive=True): "**" stands for
\* the dataset directory itself and then every directory below it.
Glob(dataset_path, listing, pat) ==
    LET dirs == IF pat.rec THEN <<(<<>>)>> \o RListDir(listing, <<>>)
                ELSE <<(<<>>)>>
        rel == Flatten([i \in 1..Len(dirs) |->
                          Glob1(listing, dirs[i], pat.suffix)])
    IN [i \in 1..Len(rel) |-> dataset_path \o rel[i]]

\* The concatenated match lists (image_paths before deduplication).
AllMatches(dataset_path, listing) ==
    Flatten([i \in 1..Len(Patterns) |-> Glob(dataset_path, listing, Patterns[i])])

RECURSIVE UniquePathsNoSeen(_, _, _)
\* Mutant of UniquePaths: the membership test is lost, every path is kept.
UniquePathsNoSeen(paths, seen, unique_paths) ==
    IF paths = <<>> THEN unique_paths
    ELSE UniquePathsNoSeen(Tail(paths), seen, Append(unique_paths, NormPath(Head(paths))))

RECURSIVE UniquePaths(_, _, _)
\* The deduplication loop: norm is appended when it has not been seen.
UniquePaths(paths, seen, unique_paths) ==
    IF paths = <<>> THEN unique_paths
    ELSE LET norm == NormPath(Head(paths)) IN
         IF norm \notin seen
         THEN UniquePaths(Tail(paths), seen \cup {norm}, Append(unique_paths, norm))
         ELSE UniquePaths(Tail(paths), seen, unique_paths)

collect_image_paths(dataset_path, listing) ==
    UniquePaths(AllMatches(dataset_path, listing), {}, <<>>)

\* ---------------------------------------------------------------- numbers

\* A real number is modelled in tenths: the integer v stands for v / 10.

Digits == <<"0", "1", "2", "3", "4", "5", "6", "7", "8", "9">>

DigitChar(n) == Digits[n + 1]

IsDigit(c) == c \in Range(Digits)

DigitVal(c) == CHOOSE n \in 0..9 : Digits[n + 1] = c

RECURSIVE NatStr(_)
\* The decimal digits of a natural number.
NatStr(n) ==
    IF n < 10 THEN <<DigitChar(n)>>
    ELSE NatStr(n \div 10) \o <<DigitChar(n % 10)>>

Abs(v) == IF v < 0 THEN -v ELSE v

\* float.__repr__ of v / 10: sign, integer part, ".", one fraction digit.
FloatRepr(v) ==
    (IF v < 0 THEN <<"-">> ELSE <<>>)
    \o NatStr(Abs(v) \div 10) \o <<".">> \o <<DigitChar(Abs(v) % 10)>>

\* ----------------------------------------------------------- json encoding

ItemSeparator == <<",">>
KeySeparator == <<":", " ">>

RECURSIVE Spaces(_)
Spaces(n) == IF n = 0 THEN <<>> ELSE <<" ">> \o Spaces(n - 1)

\* json.encoder: newline_indent at nesting level `level`, for indent=4.
NewlineIndent(level) == <<"\n">> \o Spaces(4 * level)

\* The chunks _iterencode_list yields for a non-empty list of floats that
\* sits at nesting level `level`: "[" is joined to the first item.
EncodeFloatList(xs, level) ==
    [i \in 1..Len(xs) |->
        (IF i = 1 THEN <<"[">> ELSE ItemSeparator)
        \o NewlineIndent(level + 1) \o FloatRepr(xs[i])]
    \o <<NewlineIndent(level), <<"]">>>>

\* The chunks for a non-empty list of lists of floats: the opening bracket
\* or the separator is a chunk of its own before each inner list.
EncodeListOfLists(xss, level) ==
    Flatten([i \in 1..Len(xss) |->
        <<(IF i = 1 THEN <<"[">> ELSE ItemSeparator) \o NewlineIndent(level + 1)>>
        \o EncodeFloatList(xss[i], level + 1)])
    \o <<NewlineIndent(level), <<"]">>>>

\* The quoted key, as encode_basestring gives it for plain ASCII.
EncodeKey(key) == <<"\"">> \o key \o <<"\"">>

\* The chunks json.dump(params, f, indent=4) writes, one per f.write, for
\* the ordered dict params: a sequence of [key, nested, val] items.
IterEncode(params) ==
    <<(<<"{">>)>>
    \o Flatten([i \in 1..Len(params) |->
        << (IF i = 1 THEN <<>> ELSE ItemSeparator) \o NewlineIndent(1),
           EncodeKey(params[i].key),
           KeySeparator >>
        \o (IF params[i].nested
            THEN EncodeListOfLists(params[i].val, 1)
            ELSE EncodeFloatList(params[i].val, 1))])
    \o <<NewlineIndent(0), <<"}">>>>

\* ------------------------------------------------------------ json parsing

\* The reader of the exported document (json.loads on the consumer's side),
\* used to state what the written file holds.

IsWs(c) == c \in {" ", "\n", "\t", "\r"}

RECURSIVE SkipWs(_, _)
\* The index of the first non-whitespace character at or after i.
SkipWs(t, i) ==
    IF i <= Len(t) /\ IsWs(t[i]) THEN SkipWs(t, i + 1) ELSE i

RECURSIVE ScanNat(_, _, _)
\* Reads the digits from i on: [val, next].
ScanNat(t, i, acc) ==
    IF i <= Len(t) /\ IsDigit(t[i])
    THEN ScanNat(t, i + 1, 10 * acc + DigitVal(t[i]))
    ELSE [val |-> acc, next |-> i]

\* A JSON number with one fraction digit, as a value in tenths.
ParseNumber(t, i) ==
    LET neg == i <= Len(t) /\ t[i] = "-"
        int == ScanNat(t, IF neg THEN i + 1 ELSE i, 0)
        frac == ScanNat(t, int.next + 1, 0)
        mag == 10 * int.val + frac.val
    IN [val |-> IF neg THEN -mag ELSE mag, next |-> frac.next]

RECURSIVE ParseString(_, _, _)
\* The characters up to the closing quote; i is just after the opening one.
ParseString(t, i, acc) ==
    IF t[i] = "\"" THEN [val |-> acc, next |-> i + 1]
    ELSE ParseString(t, i + 1, Append(acc, t[i]))

RECURSIVE ParseValue(_, _)
RECURSIVE ParseItems(_, _, _)
RECURSIVE ParseMembers(_, _, _)

\* The items of an array; i is at the first item or at "]".
ParseItems(t, i, acc) ==
    LET j == SkipWs(t, i) IN
    IF t[j] = "]" THEN [val |-> acc, next |-> j + 1]
    ELSE LET item == ParseValue(t, j)
             k == SkipWs(t, item.next)
         IN ParseItems(t, IF t[k] = "," THEN k + 1 ELSE k, Append(acc, item.val))

\* The members of an object, as a set of <<key, value>> pairs.
ParseMembers(t, i, acc) ==
    LET j == SkipWs(t, i) IN
    IF t[j] = "}" THEN [val |-> acc, next |-> j + 1]
    ELSE LET key == ParseString(t, j + 1, <<>>)
             colon == SkipWs(t, key.next)
             item == ParseValue(t, SkipWs(t, colon + 1))
             k == SkipWs(t, item.next)
         IN ParseMembers(t, IF t[k] = "," THEN k + 1 ELSE k,
                         acc \cup {<<key.val, item.val>>})

ParseValue(t, i) ==
    IF t[i] = "[" THEN ParseItems(t, i + 1, <<>>)
    ELSE IF t[i] = "{" THEN
        LET m == ParseMembers(t, i + 1, {})
            keys == {kv[1] : kv \in m.val}
        IN [val |-> [key \in keys |-> (CHOOSE kv \in m.val : kv[1] = key)[2]],
            next |-> m.next]
    ELSE ParseNumber(t, i)

\* json.loads of a complete document.
JsonLoads(t) == ParseValue(t, SkipWs(t, 1)).val

\* ------------------------------------------------------------ the pipeline

VARIABLES
    pc,             \* position in main and the functions it calls
    dataset_path,   \* args.dataset_path
    n_components,   \* args.n_components
    is_dir,         \* file system: dataset_path is a directory
    listing,        \* file system: the files below dataset_path, in scan order
    corrupt,        \* file system: the files whose open/convert/embed raises
    fs0,            \* the output location as it was when main started
    out_dir,        \* file system: the directory of output_path exists
    out_file,       \* file system: the file at output_path
    image_paths,    \* main: image_paths
    idx,            \* extract_features: samples visited so far
    features,       \* extract_features: the list of embeddings
    warned,         \* stderr: the paths of the [WARN] lines
    err,            \* the exception in flight, or the last one handled
    feature_matrix, \* main: features (the matrix extract_features returns)
    gmm,            \* main: gmm
    chunks,         \* export_gmm: what json.dump has to write
    chunk_i,        \* export_gmm: chunks written so far
    buffer,         \* export_gmm: text f holds and has not passed on yet
    bin_buffer,     \* export_gmm: bytes the binary layer of f holds
    no_room,        \* file system: the file at output_path takes no more bytes
    export_calls,   \* number of calls of export_gmm in this run
    diag,           \* stderr: the [ERROR] line of main
    stdout_done,    \* stdout: "[INFO] All done." was printed
    exit_status,    \* process exit status; Running while main runs
    prev_exit       \* what the previous run of the program ended with

vars == <<pc, dataset_path, n_components, is_dir, listing, corrupt, fs0,
          out_dir, out_file, image_paths, idx, features, warned, err,
          feature_matrix, gmm, chunks, chunk_i, buffer, bin_buffer,
          no_room, export_calls, diag, stdout_done, exit_status, prev_exit>>

Running == -1

NoErr == [type |-> "", msg |-> ""]

NoGmm == [weights |-> <<>>, means |-> <<>>, covariances |-> <<>>]

NoExit == [kind |-> "", status |-> Running]

MsgNoImages == "No images found. Supported extensions: .jpg, .jpeg, .png"

MsgNoFeatures == "No features extracted. All image loads may have failed."

DiagDataset == "Dataset path does not exist or is not a directory"

DiagExtract == "Feature extraction failed"

DiagTrain == "GMM training failed"

DiagExport == "Export failed"

\* ------------------------------------------------------------- environment

\* A file the patterns can match: an image suffix and no hidden component.
IsImageFile(f) ==
    /\ \A i \in 1..Len(f) : ~IsHidden(f[i])
    /\ \E suffix \in {DotJpg, DotJpeg, DotPng} : FnMatch(f[Len(f)], suffix)

\* Image.open(img_path)...model(tensor) raises for this path.
Raises(dp, bad, img_path) == \E f \in bad : NormPath(dp \o f) = img_path

\* The content of the image at img_path: the file's number in FileUniverse.
ImageAt(dp, img_path) ==
    CHOOSE i \in 1..Len(FileUniverse) : NormPath(dp \o FileUniverse[i]) = img_path

\* model(tfm(img)).squeeze(0): the embedding, a vector of FeatDim numbers
\* that differ from image to image and from column to column.
Embed(image) == [d \in 1..FeatDim |-> 10 * image + d]

\* What an earlier run left at output_path.
OldData == <<"{", "}">>

AbsentFile == [exists |-> FALSE, data |-> <<>>]

\* The output location before the run: no directory; a directory without
\* the file; a directory holding an older file.
OutputStates ==
    { [dir |-> FALSE, file |-> AbsentFile],
      [dir |-> TRUE, file |-> AbsentFile],
      [dir |-> TRUE, file |-> [exists |-> TRUE, data |-> OldData]] }

\* -------------------------------------------------------------------- init

\* The state when main is entered, after parse_args.
InitRun ==
    /\ pc = "main"
    /\ dataset_path \in DatasetPaths
    /\ n_components \in 1..MaxK
    /\ is_dir \in BOOLEAN
    /\ listing \in IF is_dir
                   THEN DistinctSeqs(Range(FileUniverse), MaxFiles)
                   ELSE {<<>>}
    /\ corrupt \in SUBSET {f \in Range(listing) : IsImageFile(f)}
    /\ fs0 \in OutputStates
    /\ out_dir = fs0.dir
    /\ out_file = fs0.file
    /\ image_paths = <<>>
    /\ idx = 0
    /\ features = <<>>
    /\ warned = <<>>
    /\ err = NoErr
    /\ feature_matrix = <<>>
    /\ gmm = NoGmm
    /\ chunks = <<>>
    /\ chunk_i = 0
    /\ buffer = <<>>
    /\ bin_buffer = <<>>
    /\ no_room = FALSE
    /\ export_calls = 0
    /\ diag = ""
    /\ stdout_done = FALSE
    /\ exit_status = Running

Init == InitRun /\ prev_exit = NoExit

envVars == <<dataset_path, n_components, is_dir, listing, corrupt, fs0, prev_exit>>
fsVars == <<out_dir, out_file>>
extractVars == <<idx, features, warned, feature_matrix>>
exportVars == <<chunks, chunk_i, buffer, bin_buffer, no_room, export_calls>>
endVars == <<diag, stdout_done, exit_status>>

\* -------------------------------------------------------------------- main

\* sys.exit(1) after an [ERROR] line naming the stage.
ExitWith(stage) ==
    /\ diag' = stage
    /\ exit_status' = 1
    /\ pc' = "exit"
    /\ UNCHANGED stdout_done

\* main, lines 143-152: the dataset check, then the image paths are collected.
Main_Start ==
    /\ pc = "main"
    /\ IF ~is_dir
       THEN /\ ExitWith(DiagDataset)
            /\ UNCHANGED image_paths
       ELSE /\ image_paths' = collect_image_paths(dataset_path, listing)
            /\ pc' = "extract"
            /\ UNCHANGED endVars
    /\ UNCHANGED <<envVars, fsVars, extractVars, err, gmm, exportVars>>

\* Mutant of Extract_Begin: the check for an empty sequence is missing.
Extract_BeginNoEmptyCheck ==
    /\ pc = "extract"
    /\ features' = <<>>
    /\ idx' = 0
    /\ pc' = "extract_loop"
    /\ UNCHANGED <<envVars, fsVars, image_paths, warned, feature_matrix, gmm,
                   exportVars, endVars, err>>

\* extract_features, lines 78-83: an empty sequence raises at once.
Extract_Begin ==
    /\ pc = "extract"
    /\ features' = <<>>
    /\ idx' = 0
    /\ IF Len(image_paths) = 0
       THEN /\ err' = [type |-> "RuntimeError", msg |-> MsgNoImages]
            /\ pc' = "extract_raised"
       ELSE /\ pc' = "extract_loop"
            /\ UNCHANGED err
    /\ UNCHANGED <<envVars, fsVars, image_paths, warned, feature_matrix, gmm,
                   exportVars, endVars>>

\* Mutant of Extract_Step: the exception of a sample is not caught in the
\* loop and leaves extract_features.
Extract_StepAborts ==
    /\ pc = "extract_loop"
    /\ idx < Len(image_paths)
    /\ LET img_path == image_paths[idx + 1] IN
       IF Raises(dataset_path, corrupt, img_path)
       THEN /\ err' = [type |-> "OSError", msg |-> "cannot identify image file"]
            /\ pc' = "extract_raised"
            /\ UNCHANGED <<features, idx>>
       ELSE /\ features' = Append(features, Embed(ImageAt(dataset_path, img_path)))
            /\ idx' = idx + 1
            /\ UNCHANGED <<pc, err>>
    /\ UNCHANGED <<envVars, fsVars, image_paths, warned, feature_matrix, gmm,
                   exportVars, endVars>>

\* One iteration of the loop, lines 85-96: the embedding is appended, or the
\* exception is caught, a warning printed and the loop continues.
Extract_Step ==
    /\ pc = "extract_loop"
    /\ idx < Len(image_paths)
    /\ LET img_path == image_paths[idx + 1] IN
       IF Raises(dataset_path, corrupt, img_path)
       THEN /\ warned' = Append(warned, img_path)
            /\ UNCHANGED features
       ELSE /\ features' = Append(features, Embed(ImageAt(dataset_path, img_path)))
            /\ UNCHANGED warned
    /\ idx' = idx + 1
    /\ UNCHANGED <<pc, envVars, fsVars, image_paths, err, feature_matrix, gmm,
                   exportVars, endVars>>

\* Mutant of VStack: the rows are stacked in reverse order.
VStackReversed(fs) == [i \in 1..Len(fs) |-> fs[Len(fs) + 1 - i]]

\* np.vstack(features).astype(np.float32): one row per embedding, in list
\* order (the embeddings are float32 already).
VStack(fs) == [i \in 1..Len(fs) |-> fs[i]]

\* After the loop, lines 98-103: no features raises, else the matrix is
\* returned to main.
Extract_End ==
    /\ pc = "extract_loop"
    /\ idx = Len(image_paths)
    /\ IF features = <<>>
       THEN /\ err' = [type |-> "RuntimeError", msg |-> MsgNoFeatures]
            /\ pc' = "extract_raised"
            /\ UNCHANGED feature_matrix
       ELSE /\ feature_matrix' = VStack(features)
            /\ pc' = "train"
            /\ UNCHANGED err
    /\ UNCHANGED <<envVars, fsVars, image_paths, idx, features, warned, gmm,
                   exportVars, endVars>>

\* main, lines 156-158.
Main_ExtractFailed ==
    /\ pc = "extract_raised"
    /\ ExitWith(DiagExtract)
    /\ UNCHANGED <<envVars, fsVars, image_paths, extractVars, err, gmm, exportVars>>

\* ---------------------------------------------------------------- the fit

\* The weights of filling s, in tenths: near uniform (s odd), or one
\* dominant component beside components of weight 0.1 (s even).
FitWeights(K, s) ==
    [k \in 1..K |->
        IF s % 2 = 1
        THEN (10 \div K) + (IF k <= 10 % K THEN 1 ELSE 0)
        ELSE IF k = 1 THEN 10 - (K - 1) ELSE 1]

\* A fitted mixture of K components over D columns: weights_ of shape (K,),
\* means_ and covariances_ of shape (K, D) (covariance_type='diag').
FittedGmm(K, D, s) ==
    [weights |-> FitWeights(K, s),
     means |-> [k \in 1..K |-> [d \in 1..D |->
                    ((17 * k + 5 * d + 11 * s) % 41) * 7 - 140]],
     covariances |-> [k \in 1..K |-> [d \in 1..D |->
                    1 + ((k + 2 * d + s) % 5)]]]

\* GaussianMixture.fit checks the sample count before it fits: at least 2
\* samples, and at least n_components samples.
FitRejects(X, K) == Len(X) < 2 \/ Len(X) < K

FitError(X, K) ==
    IF Len(X) < 2
    THEN [type |-> "ValueError", msg |-> "a minimum of 2 is required by GaussianMixture"]
    ELSE [type |-> "ValueError", msg |-> "Expected n_samples >= n_components"]

\* Mutant of Train: an exception of the fit is swallowed and the estimator
\* is returned as it is.
TrainSwallows ==
    /\ pc = "train"
    /\ IF FitRejects(feature_matrix, n_components)
       THEN UNCHANGED gmm
       ELSE \E s \in 1..FitSeeds :
                 gmm' = FittedGmm(n_components, Len(feature_matrix[1]), s)
    /\ pc' = "export"
    /\ UNCHANGED <<envVars, fsVars, image_paths, extractVars, exportVars, endVars, err>>

\* train_gmm, lines 106-116: gmm.fit(features) raises or returns the fit.
Train ==
    /\ pc = "train"
    /\ IF FitRejects(feature_matrix, n_components)
       THEN /\ err' = FitError(feature_matrix, n_components)
            /\ pc' = "train_raised"
            /\ UNCHANGED gmm
       ELSE /\ \E s \in 1..FitSeeds :
                 gmm' = FittedGmm(n_components, Len(feature_matrix[1]), s)
            /\ pc' = "export"
            /\ UNCHANGED err
    /\ UNCHANGED <<envVars, fsVars, image_paths, extractVars, exportVars, endVars>>

\* Mutant of Main_TrainFailed: the handler prints and does not exit.
Main_TrainFailedGoesOn ==
    /\ pc = "train_raised"
    /\ diag' = DiagTrain
    /\ pc' = "export"
    /\ UNCHANGED <<envVars, fsVars, image_paths, extractVars, err, gmm, exportVars,
                   stdout_done, exit_status>>

\* main, lines 162-164.
Main_TrainFailed ==
    /\ pc = "train_raised"
    /\ ExitWith(DiagTrain)
    /\ UNCHANGED <<envVars, fsVars, image_paths, extractVars, err, gmm, exportVars>>

\* ------------------------------------------------------------- the export

KeyWeights == <<"w", "e", "i", "g", "h", "t", "s">>
KeyMeans == <<"m", "e", "a", "n", "s">>
KeyCovariances == <<"c", "o", "v", "a", "r", "i", "a", "n", "c", "e", "s">>

\* Mutant of ExportParams: the covariances entry is filled from the means.
ExportParamsMeansTwice(g) ==
    << [key |-> KeyWeights, nested |-> FALSE, val |-> g.weights],
       [key |-> KeyMeans, nested |-> TRUE, val |-> g.means],
       [key |-> KeyCovariances, nested |-> TRUE, val |-> g.means] >>

\* The dict params of export_gmm, lines 120-124, in insertion order.
ExportParams(g) ==
    << [key |-> KeyWeights, nested |-> FALSE, val |-> g.weights],
       [key |-> KeyMeans, nested |-> TRUE, val |-> g.means],
       [key |-> KeyCovariances, nested |-> TRUE, val |-> g.covariances] >>

OsError(what) == [type |-> "OSError", msg |-> what]

\* export_gmm, lines 120-128: params is built and the directory of
\* output_path is created when missing; os.makedirs may raise.
Export_Begin ==
    /\ pc = "export"
    /\ export_calls' = export_calls + 1
    /\ chunks' = IterEncode(ExportParams(gmm))
    /\ chunk_i' = 0
    /\ UNCHANGED <<buffer, bin_buffer, no_room>>
    /\ IF ~out_dir
       THEN \/ /\ out_dir' = TRUE
               /\ pc' = "export_open"
               /\ UNCHANGED err
            \/ /\ err' = OsError("makedirs")
               /\ pc' = "export_raised"
               /\ UNCHANGED out_dir
       ELSE /\ pc' = "export_open"
            /\ UNCHANGED <<out_dir, err>>
    /\ UNCHANGED <<envVars, out_file, image_paths, extractVars, gmm, endVars>>

\* open(output_path, "w"), line 130: the file is created or truncated, or
\* open raises and leaves it alone.
Export_Open ==
    /\ pc = "export_open"
    /\ \/ /\ out_file' = [exists |-> TRUE, data |-> <<>>]
          /\ pc' = "export_write"
          /\ UNCHANGED err
       \/ /\ err' = OsError("open")
          /\ pc' = "export_raised"
          /\ UNCHANGED out_file
    /\ UNCHANGED <<envVars, out_dir, image_paths, extractVars, gmm, exportVars,
                   endVars>>

\* TextIOWrapper._CHUNK_SIZE: the text layer of the file open() returns
\* passes its pending text on once it holds this many bytes.
ChunkSize == 8192

\* st_blksize of the output file: the buffer size open() gives the binary
\* layer (BufferedWriter) under the text layer.
BlockSize == 4096

Min(a, b) == IF a < b THEN a ELSE b

\* The lengths of the part of `pending` a write that runs out of room
\* leaves in the file: any proper prefix, of at most MaxRoom bytes.
FailedFlushLengths(pending) == 0..Min(MaxRoom, Len(pending) - 1)

\* os.write of d to the file, repeated until all of d is written or a write
\* fails.  A file that is out of room takes nothing.  Otherwise it takes all
\* of d, or only the first n bytes, and is out of room from then on.
RawWrite(file, d, full) ==
    IF full
    THEN {[file |-> file, left |-> d, full |-> TRUE]}
    ELSE {[file |-> file \o d, left |-> <<>>, full |-> FALSE]}
         \cup {[file |-> file \o SubSeq(d, 1, n),
                left |-> SubSeq(d, n + 1, Len(d)),
                full |-> TRUE] : n \in FailedFlushLengths(d)}

\* BufferedWriter.flush: the buffered bytes go to the file.  It raises when
\* the file does not take them all; the rest stays buffered.
BinFlush(file, raw, full) ==
    IF raw = <<>>
    THEN {[file |-> file, raw |-> raw, full |-> full, raised |-> FALSE]}
    ELSE {[file |-> o.file, raw |-> o.left, full |-> o.full,
           raised |-> o.left # <<>>] : o \in RawWrite(file, raw, full)}

\* BufferedWriter.write(d): d is buffered when it fits in what is left of
\* the buffer.  Otherwise the buffer is flushed first; d is then written to
\* the file directly while more than BlockSize bytes of it remain, and what
\* remains after that is buffered.
BinWrite(file, raw, d, full) ==
    IF Len(d) <= BlockSize - Len(raw)
    THEN {[file |-> file, raw |-> raw \o d, full |-> full, raised |-> FALSE]}
    ELSE UNION {
           IF o.raised THEN {o}
           ELSE IF Len(d) <= BlockSize
           THEN {[file |-> o.file, raw |-> d, full |-> o.full, raised |-> FALSE]}
           ELSE {IF Len(w.left) > BlockSize
                 THEN [file |-> w.file, raw |-> <<>>, full |-> w.full,
                       raised |-> TRUE]
                 ELSE [file |-> w.file, raw |-> w.left, full |-> w.full,
                       raised |-> FALSE]
                 : w \in RawWrite(o.file, d, o.full)}
           : o \in BinFlush(file, raw, full)}

\* TextIOWrapper.write(chunk).  Pending text that would grow beyond
\* ChunkSize with the chunk is passed to the binary layer first and the
\* chunk becomes the pending text; otherwise the chunk is appended.  Pending
\* text of ChunkSize bytes or more is then passed on at once.  The pending
\* text is dropped before it is passed on, so it is lost when that raises.
TextWrite(file, raw, pending, chunk, full) ==
    LET first == IF pending # <<>> /\ Len(pending) + Len(chunk) > ChunkSize
                 THEN {[file |-> o.file, raw |-> o.raw, full |-> o.full,
                        raised |-> o.raised,
                        pending |-> IF o.raised THEN <<>> ELSE chunk]
                       : o \in BinWrite(file, raw, pending, full)}
                 ELSE {[file |-> file, raw |-> raw, full |-> full,
                        raised |-> FALSE,
                        pending |-> pending \o chunk]}
    IN UNION {
         IF a.raised \/ Len(a.pending) < ChunkSize THEN {a}
         ELSE {[file |-> o.file, raw |-> o.raw, full |-> o.full,
                raised |-> o.raised,
                pending |-> <<>>]
               : o \in BinWrite(a.file, a.raw, a.pending, a.full)}
         : a \in first}

\* f.close(), the end of the with block: the pending text is passed to the
\* binary layer, which is flushed and closed.  The binary layer is flushed
\* and closed also when passing the text on raised.
TextClose(file, raw, pending, full) ==
    LET passed == IF pending = <<>>
                  THEN {[file |-> file, raw |-> raw, full |-> full,
                         raised |-> FALSE]}
                  ELSE BinWrite(file, raw, pending, full)
    IN UNION {{[file |-> o.file, full |-> o.full,
                raised |-> a.raised \/ o.raised]
               : o \in BinFlush(a.file, a.raw, a.full)}
              : a \in passed}

\* json.dump, line 131: one f.write per chunk.  The text goes into the
\* buffers of f and reaches the file only when they overflow.  That may
\* raise (disk full) after a part of the text was written; the with block
\* then closes f, and export_gmm raises.
Export_Write ==
    /\ pc = "export_write"
    /\ chunk_i < Len(chunks)
    /\ \E w \in TextWrite(out_file.data, bin_buffer, buffer,
                          chunks[chunk_i + 1], no_room) :
          IF ~w.raised
          THEN /\ out_file' = [out_file EXCEPT !.data = w.file]
               /\ bin_buffer' = w.raw
               /\ buffer' = w.pending
               /\ no_room' = w.full
               /\ chunk_i' = chunk_i + 1
               /\ UNCHANGED <<pc, err>>
          ELSE \E c \in TextClose(w.file, w.raw, w.pending, w.full) :
                  /\ out_file' = [out_file EXCEPT !.data = c.file]
                  /\ bin_buffer' = <<>>
                  /\ buffer' = <<>>
                  /\ no_room' = c.full
                  /\ err' = OsError("write")
                  /\ pc' = "export_raised"
                  /\ UNCHANGED chunk_i
    /\ UNCHANGED <<envVars, out_dir, image_paths, extractVars, gmm, chunks,
                   export_calls, endVars>>

\* The with block ends (lines 130-131): f is closed, which flushes the
\* buffers into the file.  The flush may raise and leave a part of the
\* buffered text in the file; export_gmm then raises.  Otherwise
\* export_gmm returns and main prints "All done." (lines 133 and 172).
Export_End ==
    /\ pc = "export_write"
    /\ chunk_i = Len(chunks)
    /\ buffer' = <<>>
    /\ bin_buffer' = <<>>
    /\ \E c \in TextClose(out_file.data, bin_buffer, buffer, no_room) :
          /\ out_file' = [out_file EXCEPT !.data = c.file]
          /\ no_room' = c.full
          /\ IF ~c.raised
             THEN /\ stdout_done' = TRUE
                  /\ exit_status' = 0
                  /\ pc' = "done"
                  /\ UNCHANGED <<err, diag>>
             ELSE /\ err' = OsError("close")
                  /\ pc' = "export_raised"
                  /\ UNCHANGED endVars
    /\ UNCHANGED <<envVars, out_dir, image_paths, extractVars, gmm, chunks,
                   chunk_i, export_calls>>

\* main, lines 168-170.
Main_ExportFailed ==
    /\ pc = "export_raised"
    /\ ExitWith(DiagExport)
    /\ UNCHANGED <<envVars, fsVars, image_paths, extractVars, err, gmm, exportVars>>

\* --------------------------------------------------------- specifications

Next ==
    \/ Main_Start
    \/ Extract_Begin
    \/ Extract_Step
    \/ Extract_End
    \/ Main_ExtractFailed
    \/ Train
    \/ Main_TrainFailed
    \/ Export_Begin
    \/ Export_Open
    \/ Export_Write
    \/ Export_End
    \/ Main_ExportFailed

Spec == Init /\ [][Next]_vars

\* What a run that ended with status 1 failed on.
FailureKind ==
    IF ~is_dir THEN "dataset_invalid"
    ELSE IF image_paths = <<>> THEN "no_samples"
    ELSE IF feature_matrix = <<>> THEN "no_features"
    ELSE IF gmm = NoGmm THEN "insufficient_samples"
    ELSE "export_failed"

\* The program is started again (lines 175-176), with new arguments and
\* whatever the file system then holds; the caller keeps the outcome of the
\* run before.
Rerun ==
    /\ pc \in {"exit", "done"}
    /\ prev_exit = NoExit
    /\ prev_exit' = [kind |-> IF exit_status = 0 THEN "success" ELSE FailureKind,
                     status |-> exit_status]
    /\ pc' = "main"
    /\ dataset_path' \in DatasetPaths
    /\ n_components' \in 1..MaxK
    /\ is_dir' \in BOOLEAN
    /\ listing' \in IF is_dir'
                    THEN DistinctSeqs(Range(FileUniverse), MaxFiles)
                    ELSE {<<>>}
    /\ corrupt' \in SUBSET {f \in Range(listing') : IsImageFile(f)}
    /\ fs0' \in OutputStates
    /\ out_dir' = fs0'.dir
    /\ out_file' = fs0'.file
    /\ image_paths' = <<>>
    /\ idx' = 0
    /\ features' = <<>>
    /\ warned' = <<>>
    /\ err' = NoErr
    /\ feature_matrix' = <<>>
    /\ gmm' = NoGmm
    /\ chunks' = <<>>
    /\ chunk_i' = 0
    /\ buffer' = <<>>
    /\ bin_buffer' = <<>>
    /\ no_room' = FALSE
    /\ export_calls' = 0
    /\ diag' = ""
    /\ stdout_done' = FALSE
    /\ exit_status' = Running

NextRuns == Next \/ Rerun

SpecRuns == Init /\ [][NextRuns]_vars


\* ------------------------------------------------------------------ claims

\* extract_features has ended, by a raise or by returning to main.
ExtractEnded == pc \notin {"main", "extract", "extract_loop"} /\ is_dir

\* The samples of image_paths whose processing does not raise, in order.
Survivors ==
    SelectSeq(image_paths, LAMBDA p : ~Raises(dataset_path, corrupt, p))

\* C1: in extract_features, for a non-empty sequence of image paths, the
\* failure of a sample never aborts the run: when the call has ended every
\* sample has been visited, each failing one left a warning, and the call
\* raised only if no sample at all succeeded.
C1_SampleFailureNeverAborts ==
    (ExtractEnded /\ image_paths # <<>>) =>
        /\ idx = Len(image_paths)
        /\ Len(features) + Len(warned) = Len(image_paths)
        /\ warned = SelectSeq(image_paths,
                              LAMBDA p : Raises(dataset_path, corrupt, p))
        /\ (feature_matrix = <<>>) <=> (Survivors = <<>>)
        /\ (feature_matrix = <<>>) => err.msg = MsgNoFeatures

\* The first sample failed and a later one was still embedded and returned.
C1_Witness ==
    /\ pc = "train"
    /\ Len(image_paths) >= 2
    /\ Raises(dataset_path, corrupt, image_paths[1])
    /\ ~Raises(dataset_path, corrupt, image_paths[Len(image_paths)])
    /\ feature_matrix # <<>>

\* The file at output_path holds the complete record of the fitted model.
CompleteRecord ==
    /\ out_file.exists
    /\ gmm # NoGmm
    /\ out_file.data = Flatten(IterEncode(ExportParams(gmm)))

\* C2: exporting is atomic with respect to the target path: when the run
\* has ended, also after a write that failed part-way, the file at
\* output_path holds the complete record or is what it was before.
C2_ExportAtomic ==
    (pc \in {"exit", "done"}) => (CompleteRecord \/ out_file = fs0.file)

\* The stage failures the exit status is to tell apart.
StageFailures ==
    {"no_samples", "no_features", "insufficient_samples", "export_failed"}

\* C3: every stage failure ends the process with a non-zero status that is
\* distinct per failing stage: two runs that failed in different ways did
\* not end with the same status.
C3_DistinctExitStatus ==
    (/\ pc = "exit"
     /\ FailureKind \in StageFailures
     /\ prev_exit.kind \in StageFailures
     /\ prev_exit.kind # FailureKind)
        => (exit_status # 0 /\ exit_status # prev_exit.status)

\* C4: the fatal extraction errors are kept apart: an empty sequence raises
\* the no-images error before any sample is processed, a non-empty sequence
\* in which every sample fails raises the no-features error; the two errors
\* differ and neither case returns a feature matrix.
C4_FatalErrorsKeptApart ==
    ExtractEnded =>
        /\ (image_paths = <<>>) =>
               /\ err = [type |-> "RuntimeError", msg |-> MsgNoImages]
               /\ idx = 0 /\ features = <<>> /\ warned = <<>>
               /\ feature_matrix = <<>>
               /\ pc \in {"extract_raised", "exit"}
        /\ (image_paths # <<>> /\ Survivors = <<>>) =>
               /\ err = [type |-> "RuntimeError", msg |-> MsgNoFeatures]
               /\ err.msg # MsgNoImages
               /\ feature_matrix = <<>>
               /\ pc \in {"extract_raised", "exit"}

\* Several samples, all of which failed, and main has handled the error.
C4_Witness ==
    /\ pc = "exit"
    /\ Len(image_paths) >= 2
    /\ Len(warned) = Len(image_paths)
    /\ err.msg = MsgNoFeatures

\* C5: when extract_features returns, the rows of the feature matrix are
\* the embeddings of the samples that succeeded, one row per surviving
\* sample, in the order of the input sequence, each of width D; N >= 1.
C5_RowsAreSurvivorsInOrder ==
    (feature_matrix # <<>>) =>
        /\ Len(feature_matrix) = Len(Survivors)
        /\ Len(feature_matrix) >= 1
        /\ \A i \in 1..Len(feature_matrix) :
               /\ feature_matrix[i] = Embed(ImageAt(dataset_path, Survivors[i]))
               /\ Len(feature_matrix[i]) = FeatDim

\* Two samples survived: the order of the rows matters.
C5_Witness ==
    /\ pc = "train"
    /\ Len(feature_matrix) >= 2
    /\ feature_matrix[1] # feature_matrix[2]

\* C6: the output is touched at most once and only after extraction and
\* the fit have succeeded: before the export nothing at or above output_path
\* changes, and "All done" is printed only after the export has completed.
C6_ExportOnlyAfterFit ==
    /\ export_calls <= 1
    /\ (export_calls = 0) => (out_dir = fs0.dir /\ out_file = fs0.file)
    /\ (export_calls = 1) => (feature_matrix # <<>> /\ gmm # NoGmm)
    /\ (pc = "exit" /\ diag \in {DiagDataset, DiagExtract, DiagTrain}) =>
           (export_calls = 0 /\ out_dir = fs0.dir /\ out_file = fs0.file)
    /\ stdout_done => (export_calls = 1 /\ CompleteRecord)

\* The fit failed and main has exited; an older file was at output_path.
C6_Witness ==
    /\ pc = "exit"
    /\ diag = DiagTrain
    /\ fs0.file.exists

\* C7: for a feature matrix of N rows and K components with N < K,
\* train_gmm raises instead of returning a fitted model, and main exits
\* with an error without calling export_gmm.
C7_InsufficientSamples ==
    (/\ feature_matrix # <<>>
     /\ Len(feature_matrix) < n_components
     /\ pc # "train")
        => /\ gmm = NoGmm
           /\ err.type = "ValueError"
           /\ pc \in {"train_raised", "exit"}
           /\ export_calls = 0
           /\ (pc = "exit") => (exit_status = 1 /\ diag = DiagTrain)

\* N = 2 samples, K = 3 components, and main has exited.
C7_Witness ==
    /\ pc = "exit"
    /\ Len(feature_matrix) = 2
    /\ n_components = 3

\* C8: the record export_gmm writes has exactly the keys weights, means
\* and covariances; weights has length K, means and covariances have K rows
\* of D numbers; parsing the document gives back the values of the model.
C8_RecordRoundTrips ==
    (pc = "done") =>
        LET doc == JsonLoads(out_file.data)
            K == n_components
            D == Len(feature_matrix[1])
        IN /\ DOMAIN doc = {KeyWeights, KeyMeans, KeyCovariances}
           /\ Len(doc[KeyWeights]) = K
           /\ Len(doc[KeyMeans]) = K
           /\ Len(doc[KeyCovariances]) = K
           /\ \A k \in 1..K : /\ Len(doc[KeyMeans][k]) = D
                              /\ Len(doc[KeyCovariances][k]) = D
           /\ doc[KeyWeights] = gmm.weights
           /\ doc[KeyMeans] = gmm.means
           /\ doc[KeyCovariances] = gmm.covariances

\* A model of two components, whose rows differ, has been exported.
C8_Witness ==
    /\ pc = "done"
    /\ n_components = 2
    /\ gmm.means[1] # gmm.means[2]
    /\ gmm.means # gmm.covariances

\* The normalized paths of the concatenated match lists, in order.
NormMatches ==
    LET m == AllMatches(dataset_path, listing)
    IN [i \in 1..Len(m) |-> NormPath(m[i])]

\* The index at which p first occurs in s.
FirstIndex(s, p) == CHOOSE i \in 1..Len(s) : s[i] = p /\ \A j \in 1..(i - 1) : s[j] # p

\* C10: when collect_image_paths has returned (main is about to call
\* extract_features), its result is a list in which no two entries are the
\* same normalized path, every matched file appears exactly once, and the
\* entries are ordered by the first occurrence of their normalized path in
\* the concatenated match lists.
C10_UniqueOrderedPaths ==
    (pc = "extract") =>
        /\ \A i, j \in 1..Len(image_paths) :
               i # j => image_paths[i] # image_paths[j]
        /\ \A i \in 1..Len(image_paths) : NormPath(image_paths[i]) = image_paths[i]
        /\ Range(image_paths) =
               {NormPath(dataset_path \o f) : f \in {g \in Range(listing) : IsImageFile(g)}}
        /\ Len(image_paths) = Cardinality({g \in Range(listing) : IsImageFile(g)})
        /\ \A i, j \in 1..Len(image_paths) :
               i < j => FirstIndex(NormMatches, image_paths[i])
                            < FirstIndex(NormMatches, image_paths[j])

\* Two files were collected and one of them was matched by two patterns.
C10_Witness ==
    /\ pc = "extract"
    /\ Len(image_paths) = 2
    /\ Len(NormMatches) > 2

====
